---------------------------- MODULE Spec2Model ----------------------------
(***************************************************************************)
(* A model of the `discover` service-discovery client: the default codec   *)
(* (src/src/codec.rs), the ZooKeeper registration engine (src/src/zk.rs),  *)
(* the watch engine (src/src/zk/zk_watcher.rs) and the Instance identity   *)
(* (src/src/lib.rs).                                                       *)
(*                                                                         *)
(* Strings are sequences of one-character strings, so that the codec can   *)
(* be computed character by character as the source computes it.  An      *)
(* ASCII character is written as itself (a control character and the       *)
(* backquote by their byte number, "c10"), any other character by its      *)
(* code point in decimal ("u233").                                         *)
(***************************************************************************)
EXTENDS Integers, Sequences, FiniteSets, TLC

(***************************************************************************)
(* Text primitives                                                         *)
(***************************************************************************)

\* The ASCII table: Ascii[b + 1] is the character of byte b.  Control
\* characters and the backquote are written by their byte number.
Ascii ==
  <<
     "c0", "c1", "c2", "c3", "c4", "c5", "c6", "c7",
     "c8", "c9", "c10", "c11", "c12", "c13", "c14", "c15",
     "c16", "c17", "c18", "c19", "c20", "c21", "c22", "c23",
     "c24", "c25", "c26", "c27", "c28", "c29", "c30", "c31",
     " ", "!", "\"", "#", "$", "%", "&", "'",
     "(", ")", "*", "+", ",", "-", ".", "/",
     "0", "1", "2", "3", "4", "5", "6", "7",
     "8", "9", ":", ";", "<", "=", ">", "?",
     "@", "A", "B", "C", "D", "E", "F", "G",
     "H", "I", "J", "K", "L", "M", "N", "O",
     "P", "Q", "R", "S", "T", "U", "V", "W",
     "X", "Y", "Z", "[", "\\", "]", "^", "_",
     "c96", "a", "b", "c", "d", "e", "f", "g",
     "h", "i", "j", "k", "l", "m", "n", "o",
     "p", "q", "r", "s", "t", "u", "v", "w",
     "x", "y", "z", "{", "|", "}", "~", "c127"
  >>

AsciiChars == {Ascii[i] : i \in 1..Len(Ascii)}

\* The byte of an ASCII character.
ByteOf == [c \in AsciiChars |-> (CHOOSE i \in 1..Len(Ascii) : Ascii[i] = c) - 1]

\* The value of a string of decimal digits, after acc.
RECURSIVE DecimalValue(_, _)
DecimalValue(digits, acc) ==
  IF Len(digits) = 0 THEN acc
  ELSE DecimalValue(Tail(digits),
         10 * acc + (CHOOSE d \in 0..9 : ToString(d) = Head(digits)))

\* The code point of a character, and the character of a code point.
CodePoint(c) ==
  IF c \in AsciiChars THEN ByteOf[c] ELSE DecimalValue(Tail(c), 0)

CharOf(cp) == IF cp < 128 THEN Ascii[cp + 1] ELSE "u" \o ToString(cp)

\* char::encode_utf8: the bytes of a code point.
Utf8Encode(cp) ==
  IF cp < 128 THEN <<cp>>
  ELSE IF cp < 2048 THEN <<192 + (cp \div 64), 128 + (cp % 64)>>
  ELSE IF cp < 65536
       THEN <<224 + (cp \div 4096), 128 + ((cp \div 64) % 64), 128 + (cp % 64)>>
  ELSE <<240 + (cp \div 262144), 128 + ((cp \div 4096) % 64),
         128 + ((cp \div 64) % 64), 128 + (cp % 64)>>

Utf8Bytes(c) == Utf8Encode(CodePoint(c))

IsCont(b) == 128 <= b /\ b <= 191

\* str::from_utf8 at the head of bs, a byte >= 128: the length of the
\* well-formed sequence there, 0 when there is none (a stray continuation
\* byte, a truncated or overlong sequence, a surrogate, a code point above
\* 10FFFF).
Utf8Len(bs) ==
  IF 194 <= bs[1] /\ bs[1] <= 223 /\ Len(bs) >= 2 /\ IsCont(bs[2]) THEN 2
  ELSE IF /\ 224 <= bs[1] /\ bs[1] <= 239 /\ Len(bs) >= 3
          /\ IsCont(bs[2]) /\ IsCont(bs[3])
          /\ (bs[1] = 224 => bs[2] >= 160)
          /\ (bs[1] = 237 => bs[2] <= 159) THEN 3
  ELSE IF /\ 240 <= bs[1] /\ bs[1] <= 244 /\ Len(bs) >= 4
          /\ IsCont(bs[2]) /\ IsCont(bs[3]) /\ IsCont(bs[4])
          /\ (bs[1] = 240 => bs[2] >= 144)
          /\ (bs[1] = 244 => bs[2] <= 143) THEN 4
  ELSE 0

\* The code point of the well-formed sequence of n bytes at the head of bs.
Utf8CodePoint(bs, n) ==
  IF n = 2 THEN (bs[1] - 192) * 64 + (bs[2] - 128)
  ELSE IF n = 3 THEN (bs[1] - 224) * 4096 + (bs[2] - 128) * 64 + (bs[3] - 128)
  ELSE (bs[1] - 240) * 262144 + (bs[2] - 128) * 4096 + (bs[3] - 128) * 64
       + (bs[4] - 128)

HexUpper == <<"0","1","2","3","4","5","6","7","8","9","A","B","C","D","E","F">>
HexLower == <<"0","1","2","3","4","5","6","7","8","9","a","b","c","d","e","f">>

IsHexDigit(c) == \E i \in 1..16 : HexUpper[i] = c \/ HexLower[i] = c

HexVal(c) == (CHOOSE i \in 1..16 : HexUpper[i] = c \/ HexLower[i] = c) - 1

RECURSIVE Concat(_)
\* The concatenation of a sequence of strings.
Concat(ss) == IF ss = <<>> THEN <<>> ELSE Head(ss) \o Concat(Tail(ss))

\* The position of the first occurrence of character c in s, 0 when absent.
IndexOf(s, c) ==
  IF \E i \in 1..Len(s) : s[i] = c
  THEN CHOOSE i \in 1..Len(s) : s[i] = c /\ \A j \in 1..(i - 1) : s[j] # c
  ELSE 0

\* str::rfind: the position of the last occurrence of c in s, 0 when absent.
\* Positions are 1-based here, 0-based in the source.
RFind(s, c) ==
  IF \E i \in 1..Len(s) : s[i] = c
  THEN CHOOSE i \in 1..Len(s) : s[i] = c /\ \A j \in (i + 1)..Len(s) : s[j] # c
  ELSE 0

RECURSIVE Split(_, _)
\* s cut at its first c, which is at position p (0: there is none).
SplitAt(s, c, p) ==
  IF p = 0 THEN <<s>>
  ELSE <<SubSeq(s, 1, p - 1)>> \o Split(SubSeq(s, p + 1, Len(s)), c)

\* str::split(c): the pieces of s between occurrences of c (never empty:
\* the empty string splits into one empty piece).
Split(s, c) == SplitAt(s, c, IndexOf(s, c))


\* A string written as the sequence of its characters.
sZone     == <<"z","o","n","e">>
sEnv      == <<"e","n","v">>
sHostname == <<"h","o","s","t","n","a","m","e">>
sAddrs    == <<"a","d","d","r","s">>
sVersion  == <<"v","e","r","s","i","o","n">>
sMetadata == <<"m","e","t","a","d","a","t","a">>
sDynamic  == <<"d","y","n","a","m","i","c">>
sTrue     == <<"t","r","u","e">>
sFalse    == <<"f","a","l","s","e">>

(***************************************************************************)
(* Percent-encoding (the percent_encoding crate, as codec.rs uses it)      *)
(***************************************************************************)

IsAlnum(c) ==
  /\ c \in AsciiChars
  /\ \/ (48 <= ByteOf[c] /\ ByteOf[c] <= 57)
     \/ (65 <= ByteOf[c] /\ ByteOf[c] <= 90)
     \/ (97 <= ByteOf[c] /\ ByteOf[c] <= 122)

\* URL_ENCODE_SET: every non-alphanumeric byte except * - . _
InUrlEncodeSet(c) == ~IsAlnum(c) /\ c \notin {"*", "-", ".", "_"}

PctEncodeByte(b) == <<"%", HexUpper[(b \div 16) + 1], HexUpper[(b % 16) + 1]>>

\* A character of the set, and every character that is not ASCII, is
\* written as the percent-encoded bytes of its UTF-8 form.
PctEncodeChar(c) ==
  IF InUrlEncodeSet(c)
  THEN Concat([k \in 1..Len(Utf8Bytes(c)) |-> PctEncodeByte(Utf8Bytes(c)[k])])
  ELSE <<c>>

\* utf8_percent_encode(s, URL_ENCODE_SET)
utf8_percent_encode(s) == Concat([i \in 1..Len(s) |-> PctEncodeChar(s[i])])

RECURSIVE PctDecodeBytes(_)
\* percent_decode_str: "%" followed by two hex digits is one byte, every
\* other character (a lone "%" included) stands for itself.
PctDecodeBytes(s) ==
  IF s = <<>> THEN <<>>
  ELSE IF s[1] = "%" /\ Len(s) >= 3 /\ IsHexDigit(s[2]) /\ IsHexDigit(s[3])
       THEN <<16 * HexVal(s[2]) + HexVal(s[3])>> \o PctDecodeBytes(SubSeq(s, 4, Len(s)))
       ELSE Utf8Bytes(s[1]) \o PctDecodeBytes(Tail(s))

\* The text c followed by the text of r, or the error of r.
Utf8Cons(c, r) ==
  IF r.ok THEN [ok |-> TRUE, val |-> <<c>> \o r.val] ELSE [ok |-> FALSE, val |-> <<>>]

RECURSIVE decode_utf8(_)
\* The text after a well-formed sequence of n bytes at the head of bs, or
\* the error when there is none (n = 0).
Utf8After(bs, n) ==
  IF n = 0 THEN [ok |-> FALSE, val |-> <<>>]
  ELSE Utf8Cons(CharOf(Utf8CodePoint(bs, n)), decode_utf8(SubSeq(bs, n + 1, Len(bs))))

\* percent_decode_str(v).decode_utf8(): the text of the decoded bytes, or an
\* error when they are not UTF-8.
decode_utf8(bs) ==
  IF bs = <<>> THEN [ok |-> TRUE, val |-> <<>>]
  ELSE IF bs[1] < 128 THEN Utf8Cons(Ascii[bs[1] + 1], decode_utf8(Tail(bs)))
  ELSE Utf8After(bs, Utf8Len(bs))

percent_decode_str(v) == decode_utf8(PctDecodeBytes(v))

(***************************************************************************)
(* JSON of a string-to-string map (serde_json, as codec.rs uses it)        *)
(***************************************************************************)

\* The orders a HashMap of the keys S can iterate in: the order is not
\* specified and differs from one map to the next.
HashOrders(S) ==
  {ks \in [1..Cardinality(S) -> S] : \A j, k \in 1..Cardinality(S) : ks[j] = ks[k] => j = k}

IsControl(c) == c \in AsciiChars /\ ByteOf[c] < 32

\* serde_json's string writer: the quote, the backslash and the control
\* characters are escaped, every other character is written as itself.
JsonEscapeChar(c) ==
  IF c = "\"" THEN <<"\\", "\"">>
  ELSE IF c = "\\" THEN <<"\\", "\\">>
  ELSE IF c = "c8" THEN <<"\\", "b">>
  ELSE IF c = "c9" THEN <<"\\", "t">>
  ELSE IF c = "c10" THEN <<"\\", "n">>
  ELSE IF c = "c12" THEN <<"\\", "f">>
  ELSE IF c = "c13" THEN <<"\\", "r">>
  ELSE IF IsControl(c)
       THEN <<"\\", "u", "0", "0", HexLower[(ByteOf[c] \div 16) + 1],
              HexLower[(ByteOf[c] % 16) + 1]>>
  ELSE <<c>>

JsonString(s) == <<"\"">> \o Concat([i \in 1..Len(s) |-> JsonEscapeChar(s[i])]) \o <<"\"">>

RECURSIVE JsonMembers(_, _)
JsonMembers(m, ks) ==
  IF ks = <<>> THEN <<>>
  ELSE JsonString(Head(ks)) \o <<":">> \o JsonString(m[Head(ks)])
       \o (IF Len(ks) > 1 THEN <<",">> ELSE <<>>) \o JsonMembers(m, Tail(ks))

\* serde_json::to_string(&ins.metadata), the map iterating in the order ks
\* of its keys.
json_to_string(m, ks) == <<"{">> \o JsonMembers(m, ks) \o <<"}">>

JsonWs == {" ", "c9", "c10", "c13"}

RECURSIVE SkipWs(_, _)
SkipWs(s, i) == IF i <= Len(s) /\ s[i] \in JsonWs THEN SkipWs(s, i + 1) ELSE i

JsonBad == [ok |-> FALSE, val |-> <<>>, next |-> 0]

JsonUnescape(c) ==
  IF c \in {"\"", "\\", "/"} THEN c
  ELSE IF c = "b" THEN "c8" ELSE IF c = "f" THEN "c12" ELSE IF c = "n" THEN "c10"
  ELSE IF c = "r" THEN "c13" ELSE IF c = "t" THEN "c9" ELSE "?"

\* Four hex digits are at positions j..j+3 of s, and their value.
HasHex4(s, j) == j + 3 <= Len(s) /\ \A k \in j..(j + 3) : IsHexDigit(s[k])

Hex4(s, j) ==
  4096 * HexVal(s[j]) + 256 * HexVal(s[j + 1]) + 16 * HexVal(s[j + 2])
  + HexVal(s[j + 3])

RECURSIVE JsonStringBody(_, _, _)
\* The escape \uXXXX at position i gave the leading surrogate n1 and the
\* escape after it n2: a trailing surrogate completes the pair.
JsonUPair(s, i, acc, n1, n2) ==
  IF 56320 <= n2 /\ n2 <= 57343
  THEN JsonStringBody(s, i + 12,
         Append(acc, CharOf(65536 + (n1 - 55296) * 1024 + (n2 - 56320))))
  ELSE JsonBad

\* The escape \uXXXX at position i has the value n: a character, or the
\* first half of a surrogate pair; a lone surrogate is an error.
JsonUCode(s, i, acc, n) ==
  IF 56320 <= n /\ n <= 57343 THEN JsonBad
  ELSE IF 55296 <= n /\ n <= 56319
       THEN IF i + 7 <= Len(s) /\ s[i + 6] = "\\" /\ s[i + 7] = "u" /\ HasHex4(s, i + 8)
            THEN JsonUPair(s, i, acc, n, Hex4(s, i + 8))
            ELSE JsonBad
  ELSE JsonStringBody(s, i + 6, Append(acc, CharOf(n)))

\* The escape at position i (a backslash) of a JSON string.
JsonEscape(s, i, acc) ==
  IF i + 1 > Len(s) THEN JsonBad
  ELSE IF s[i + 1] = "u"
       THEN IF HasHex4(s, i + 2) THEN JsonUCode(s, i, acc, Hex4(s, i + 2)) ELSE JsonBad
  ELSE IF JsonUnescape(s[i + 1]) = "?" THEN JsonBad
  ELSE JsonStringBody(s, i + 2, Append(acc, JsonUnescape(s[i + 1])))

\* The characters of a JSON string from position i (after the opening
\* quote) to its closing quote; a raw control character is an error.
JsonStringBody(s, i, acc) ==
  IF i > Len(s) THEN JsonBad
  ELSE IF s[i] = "\"" THEN [ok |-> TRUE, val |-> acc, next |-> i + 1]
  ELSE IF s[i] = "\\" THEN JsonEscape(s, i, acc)
  ELSE IF IsControl(s[i]) THEN JsonBad
  ELSE JsonStringBody(s, i + 1, Append(acc, s[i]))

JsonParseString(s, i) ==
  IF i <= Len(s) /\ s[i] = "\"" THEN JsonStringBody(s, i + 1, <<>>) ELSE JsonBad

\* The map m with key k set to v.
MapPut(m, k, v) == [x \in (DOMAIN m) \cup {k} |-> IF x = k THEN v ELSE m[x]]

EmptyMap == [x \in {} |-> <<>>]

RECURSIVE JsonParseMembers(_, _, _)
RECURSIVE JsonAfterKey(_, _, _)
\* The members of a JSON object from position i (at a key) to the closing
\* brace; a repeated key keeps its last value.
JsonParseMembers(s, i, acc) == JsonAfterKey(s, acc, JsonParseString(s, SkipWs(s, i)))

\* After the members m, at position e: a comma and more members, or the
\* closing brace.
JsonAfterMember(s, m, e) ==
  IF e > Len(s) THEN JsonBad
  ELSE IF s[e] = "," THEN JsonParseMembers(s, e + 1, m)
  ELSE IF s[e] = "}" THEN [ok |-> TRUE, val |-> m, next |-> e + 1]
  ELSE JsonBad

\* After the key k and the parse v of its value.
JsonAfterValue(s, acc, k, v) ==
  IF ~v.ok THEN JsonBad
  ELSE JsonAfterMember(s, MapPut(acc, k.val, v.val), SkipWs(s, v.next))

\* After the key k, at position c: a colon and a string.
JsonAfterColon(s, acc, k, c) ==
  IF c > Len(s) \/ s[c] # ":" THEN JsonBad
  ELSE JsonAfterValue(s, acc, k, JsonParseString(s, SkipWs(s, c + 1)))

\* After the parse k of a key.
JsonAfterKey(s, acc, k) ==
  IF ~k.ok THEN JsonBad ELSE JsonAfterColon(s, acc, k, SkipWs(s, k.next))

\* After the opening brace, at position j: the closing brace or members.
JsonAfterBrace(s, j) ==
  IF j <= Len(s) /\ s[j] = "}"
  THEN [ok |-> TRUE, val |-> EmptyMap, next |-> j + 1]
  ELSE JsonParseMembers(s, j, EmptyMap)

\* The object that starts at position i.
JsonObject(s, i) ==
  IF i > Len(s) \/ s[i] # "{" THEN JsonBad ELSE JsonAfterBrace(s, SkipWs(s, i + 1))

\* The parse o of the object is the result when only whitespace follows it.
JsonEnd(s, o) ==
  IF ~o.ok THEN [ok |-> FALSE, val |-> EmptyMap]
  ELSE IF SkipWs(s, o.next) = Len(s) + 1 THEN [ok |-> TRUE, val |-> o.val]
  ELSE [ok |-> FALSE, val |-> EmptyMap]

\* serde_json::from_str::<HashMap<String, String>>(v)
json_from_str(s) == JsonEnd(s, JsonObject(s, SkipWs(s, 1)))

(***************************************************************************)
(* Instance and the default codec                                          *)
(***************************************************************************)

\* Instance::default()
DefaultInstance ==
  [zone |-> <<>>, env |-> <<>>, appid |-> <<>>, hostname |-> <<>>,
   addrs |-> <<>>, version |-> <<>>, metadata |-> EmptyMap]

\* The key encoder of the default codec: the bytes of appid.
key_encode(ins) == ins.appid

\* The value encoder of the default codec: the leaf name of an instance
\* whose metadata iterates in the order ks of its keys.
encode(ins, ks) ==
  sZone \o <<"=">> \o utf8_percent_encode(ins.zone)
  \o <<"&">> \o sEnv \o <<"=">> \o utf8_percent_encode(ins.env)
  \o <<"&">> \o sHostname \o <<"=">> \o utf8_percent_encode(ins.hostname)
  \o Concat([i \in 1..Len(ins.addrs) |->
               <<"&">> \o sAddrs \o <<"=">> \o utf8_percent_encode(ins.addrs[i])])
  \o <<"&">> \o sVersion \o <<"=">> \o utf8_percent_encode(ins.version)
  \o <<"&">> \o sMetadata \o <<"=">> \o utf8_percent_encode(json_to_string(ins.metadata, ks))

\* pair.splitn(2, '='): the key and the value of one pair, the value empty
\* when the pair has no '='.
SplitPairAt(pair, p) ==
  IF p = 0 THEN <<pair, <<>>>>
  ELSE <<SubSeq(pair, 1, p - 1), SubSeq(pair, p + 1, Len(pair))>>

SplitPair(pair) == SplitPairAt(pair, IndexOf(pair, "="))

\* One arm of the decoder's loop: the instance after the pair (k, v).
\* The "metadata" arm: j is the parse of the decoded value.
MetadataArm(ins, j) ==
  IF j.ok THEN [ok |-> TRUE, val |-> [ins EXCEPT !.metadata = j.val]]
  ELSE [ok |-> FALSE, val |-> ins]

\* The match on the key k: d is the percent-decoded value.
DecodeArm(ins, k, d) ==
  IF ~d.ok THEN [ok |-> FALSE, val |-> ins]
  ELSE IF k = sZone THEN [ok |-> TRUE, val |-> [ins EXCEPT !.zone = d.val]]
  ELSE IF k = sEnv THEN [ok |-> TRUE, val |-> [ins EXCEPT !.env = d.val]]
  ELSE IF k = sHostname THEN [ok |-> TRUE, val |-> [ins EXCEPT !.env = d.val]]
  ELSE IF k = sAddrs
       THEN [ok |-> TRUE, val |-> [ins EXCEPT !.addrs = Append(@, d.val)]]
  ELSE IF k = sVersion THEN [ok |-> TRUE, val |-> [ins EXCEPT !.version = d.val]]
  ELSE IF k = sMetadata THEN MetadataArm(ins, json_from_str(d.val))
  ELSE [ok |-> TRUE, val |-> ins]

DecodePair(ins, k, v) == DecodeArm(ins, k, percent_decode_str(v))

\* The instance after the pair kv = <<key, value>>.
DecodeKV(ins, kv) == DecodePair(ins, kv[1], kv[2])

RECURSIVE DecodePairs(_, _)
\* The loop after one pair gave r: the error, or the remaining pairs.
DecodeRest(r, rest) == IF r.ok THEN DecodePairs(r.val, rest) ELSE r

DecodePairs(ins, pairs) ==
  IF pairs = <<>> THEN [ok |-> TRUE, val |-> ins]
  ELSE DecodeRest(DecodeKV(ins, SplitPair(Head(pairs))), Tail(pairs))

\* The decoder's result: r with the appid set from the key.
DecodeResult(key, r) ==
  IF r.ok THEN [ok |-> TRUE, val |-> [r.val EXCEPT !.appid = key]]
  ELSE [ok |-> FALSE, val |-> DefaultInstance]

\* The decoder of the default codec: the instance of a key (the appid) and
\* a value (the leaf name), or an error.
decode(key, value) == DecodeResult(key, DecodePairs(DefaultInstance, Split(value, "&")))


\* A register that takes every value of metadata["dynamic"] other than
\* "false" as dynamic.
DynamicUnlessFalse(ins) ==
  IF sDynamic \in DOMAIN ins.metadata THEN ins.metadata[sDynamic] # sFalse ELSE TRUE

\* Zk::register: dynamic is metadata["dynamic"] == "true", true when absent.
Dynamic(ins) ==
  IF sDynamic \in DOMAIN ins.metadata THEN ins.metadata[sDynamic] = sTrue ELSE TRUE

(***************************************************************************)
(* The instances of the model                                              *)
(***************************************************************************)

AppA == <<"/", "a", "/", "p">>
AppB == <<"/", "b">>

BaseInstance ==
  [zone |-> <<"z">>, env |-> <<"e">>, appid |-> AppA, hostname |-> <<"h">>,
   addrs |-> << <<"x", ":", "1">> >>, version |-> <<"1">>, metadata |-> EmptyMap]

\* i1 and i2 are dynamic members of AppA with different addresses; i3 is i1
\* with metadata dynamic=false (the same appid, version, env and addrs as
\* i1); i4 is a member of AppB with another value of dynamic; i5 is i1 in
\* another zone.
Ins ==
  [i1 |-> BaseInstance,
   i2 |-> [BaseInstance EXCEPT !.addrs = << <<"x", ":", "2">> >>,
                               !.metadata = MapPut(EmptyMap, sDynamic, sTrue)],
   i3 |-> [BaseInstance EXCEPT !.metadata = MapPut(EmptyMap, sDynamic, sFalse)],
   i4 |-> [BaseInstance EXCEPT !.appid = AppB,
                               !.metadata = MapPut(EmptyMap, sDynamic, <<"1">>)],
   i5 |-> [BaseInstance EXCEPT !.zone = <<"y">>]]

InsIds == {"i1", "i2", "i3", "i4"}

\* RegFut::new / DeRegFut::new: ins.appid + "/" + encode(ins)
PathOf(ins, ks) == ins.appid \o <<"/">> \o encode(ins, ks)

\* The order the metadata of each instance of the model iterates in: a map
\* of at most one key has one order.
InsOrder == [i \in DOMAIN Ins |-> CHOOSE ks \in HashOrders(DOMAIN Ins[i].metadata) : TRUE]

LeafPath == [i \in DOMAIN Ins |-> PathOf(Ins[i], InsOrder[i])]

(***************************************************************************)
(* The coordination tree (the ZooKeeper server, as the client calls use it)*)
(***************************************************************************)

Root == <<"/">>

\* create_path: path.rfind('/') is Some(pos) with pos > 0.
RecursesAt(path) == RFind(path, "/") > 1

\* create_path: &path[..pos], the path the recursive call is made for.
PrefixOf(path) == SubSeq(path, 1, RFind(path, "/") - 1)

RECURSIVE PrefixesOf(_)
\* The paths create_path recurses through below the frame of path.
PrefixesOf(path) ==
  IF RecursesAt(path) THEN {PrefixOf(path)} \cup PrefixesOf(PrefixOf(path)) ELSE {}

\* A child name another client gives a node of the application AppA: the
\* value of its pair is the byte FF, which is not UTF-8.
JunkName == <<"z", "o", "n", "e", "=", "%", "F", "F">>

JunkPath == AppA \o <<"/">> \o JunkName

\* The paths of the model: the root, the leaf paths and their prefixes, and
\* the path of the child of another client.
AllPaths ==
  {Root} \cup {LeafPath[i] : i \in DOMAIN Ins} \cup {JunkPath}
         \cup UNION {PrefixesOf(LeafPath[i]) : i \in DOMAIN Ins}

\* RecursesAt, PrefixOf and PrefixesOf of the paths of the model, computed
\* once.
PathTable ==
  [q \in AllPaths |->
     [has |-> RecursesAt(q),
      parent |-> IF RecursesAt(q) THEN PrefixOf(q) ELSE Root,
      above |-> PrefixesOf(q)]]

HasParent(path) == PathTable[path].has
Parent(path) == PathTable[path].parent

\* The node above a path in the tree: the root for a top-level path.
ZkParent(path) == PathTable[path].parent

\* The proper ancestors of a path other than the root.
Ancestors(path) == PathTable[path].above

ZkChildren(t, path) == {q \in DOMAIN t : q # Root /\ ZkParent(q) = path}

\* ZooKeeper::exists
ZkExists(t, path) == path \in DOMAIN t

\* ZooKeeper::create: the error of creating path in tree t, "Ok" when it
\* succeeds.
ZkCreateResult(t, path) ==
  IF path \in DOMAIN t THEN "NodeExists"
  ELSE IF ZkParent(path) \notin DOMAIN t THEN "NoNode"
  ELSE IF t[ZkParent(path)] = "Ephemeral" THEN "NoChildrenForEphemerals"
  ELSE "Ok"

ZkCreate(t, path, mode) == [q \in (DOMAIN t) \cup {path} |-> IF q = path THEN mode ELSE t[q]]

\* ZooKeeper::delete with version None
ZkDeleteResult(t, path) ==
  IF path \notin DOMAIN t THEN "NoNode"
  ELSE IF ZkChildren(t, path) # {} THEN "NotEmpty"
  ELSE "Ok"

ZkDelete(t, path) == [q \in (DOMAIN t) \ {path} |-> t[q]]

(***************************************************************************)
(* State                                                                   *)
(***************************************************************************)

\* The number of blocking tasks that run at the same time.
NumTasks == 2

Tasks == 1..NumTasks

VARIABLES
  tree,          \* the nodes of the coordination tree and their create mode
  cache,         \* Zk.persistent_exist_node_path
  tasks,         \* the register / deregister tasks on the blocking pool
  regOk,         \* per instance: its last resolved call was a register, Ok
  last,          \* the call that resolved last, until the next call starts
  rootCreate     \* a create was issued for the root by the registry

regVars == <<tree, cache, tasks, regOk, last, rootCreate>>

VARIABLES
  boot,          \* the bootstrap task of ZkWatcher::new on the blocking pool
  watches,       \* the watches the client holds on the watched path, in
                 \* the order of their installation
  zkEvents,      \* fired watches waiting for the client's event thread
  cb,            \* the children-change callback the event thread is running
  chan,          \* the unbounded event channel (tx -> rx)
  mirror,        \* ZkWatcher.instances, the consumer-side set
  delivered,     \* the events poll_next has yielded, in order
  ended,         \* poll_next has yielded the end of the stream
  calls          \* the number of calls the environment has made

watchVars == <<boot, watches, zkEvents, cb, chan, mirror, delivered, ended>>

VARIABLE
  codec          \* a use of the default codec on its own: the instance, its
                 \* encoded form and what the decoder gives for that

VARIABLE
  locks          \* the guards held on Zk.persistent_exist_node_path (cache)
                 \* and on ZkWatcher.instances (by the poll, at poll)

vars == <<regVars, watchVars, calls, codec, locks>>

\* No guard is held.  on: taking a guard is a step of its own; when it is
\* off, a statement takes and drops its guard within its step.
NoLocks == [on |-> FALSE, cache |-> {}, poll |-> "idle"]

\* The guard the statement at pc takes on the cache: read() for the
\* contains of create_path, write() for each insert.
LockMode(pc) ==
  IF pc = "cacheRead" THEN "read"
  ELSE IF pc \in {"cachePutExists", "cachePutCreated", "deregCachePut"} THEN "write"
  ELSE "none"

\* A call carries, besides its position in create_path, what the claims
\* ask of it: prev, the last call on its instance was a register that
\* resolved Ok; after, the call that resolved just before it was a
\* deregister of its instance that resolved Ok; skip, a frame of it
\* returned Ok from the cache for a path that is not in the tree.
IdleTask ==
  [op |-> "idle", ins |-> "i1", cur |-> <<>>, pc |-> "idle", prev |-> FALSE,
   after |-> FALSE, skip |-> FALSE]

NoCall ==
  [op |-> "none", ins |-> "i1", res |-> "none", prev |-> FALSE, at |-> <<>>,
   after |-> FALSE, skip |-> FALSE]

AllIdle == \A t \in Tasks : tasks[t].op = "idle"

\* create_path's mode for the frame of path cur in the task of instance i:
\* the leaf frame carries register's dynamic, every recursive frame false.
FrameDynamic(i, cur) == cur = LeafPath[i] /\ Dynamic(Ins[i])

\* The frame that called the frame of cur: the prefix of path one segment
\* longer than cur.
CallerFrame(path, cur) == CHOOSE q \in Ancestors(path) \cup {path} :
                             HasParent(q) /\ Parent(q) = cur

\* The frame of task t reads the cache and finds its path, which is not in
\* the tree.
FalsePositive(t) ==
  /\ tasks[t].pc = "cacheRead"
  /\ tasks[t].cur \in cache
  /\ tasks[t].cur \notin DOMAIN tree

\* The future of task t resolves with res (raised at path at).
Resolve(t, res, at) ==
  /\ tasks' = [tasks EXCEPT ![t] = IdleTask]
  /\ regOk' = [regOk EXCEPT ![tasks[t].ins] = (tasks[t].op = "reg" /\ res = "Ok")]
  /\ last' = [op |-> tasks[t].op, ins |-> tasks[t].ins, res |-> res,
              prev |-> tasks[t].prev, at |-> at, after |-> tasks[t].after,
              skip |-> (tasks[t].skip \/ FalsePositive(t))]

\* The frame of cur returns Ok: the register resolves when it is the leaf
\* frame, else its caller goes on to its own create.
ReturnOk(t) ==
  IF tasks[t].cur = LeafPath[tasks[t].ins]
  THEN Resolve(t, "Ok", tasks[t].cur)
  ELSE /\ tasks' = [tasks EXCEPT ![t].cur = CallerFrame(LeafPath[tasks[t].ins], @),
                                 ![t].pc = "create",
                                 ![t].skip = (@ \/ FalsePositive(t))]
       /\ UNCHANGED <<regOk, last>>

\* The frame of cur goes past its cache / exists checks: it recurses into
\* the parent path when there is one, else it creates cur.
Descend(t) ==
  IF HasParent(tasks[t].cur)
  THEN tasks' = [tasks EXCEPT ![t].cur = Parent(@), ![t].pc = "cacheRead"]
  ELSE tasks' = [tasks EXCEPT ![t].pc = "create"]


(***************************************************************************)
(* Watches of the coordination service                                     *)
(***************************************************************************)

\* The path the watcher is opened on (Zk::watch's appid).
WatchApp == AppA

\* The type of the event a change of the tree from t to u raises on path w.
EventType(t, u, w) ==
  IF w \in DOMAIN t /\ w \notin DOMAIN u THEN "NodeDeleted"
  ELSE IF w \notin DOMAIN t /\ w \in DOMAIN u THEN "NodeCreated"
  ELSE IF w \in DOMAIN t /\ ZkChildren(t, w) # ZkChildren(u, w) THEN "NodeChildrenChanged"
  ELSE "none"

\* A watch fires once: a children watch (get_children_w) on a change of the
\* children or the deletion of the node, an existence watch (exists_w) on
\* the creation or the deletion of the node.
Fires(w, type) ==
  \/ type = "NodeDeleted"
  \/ type = "NodeCreated" /\ w.h = "item"
  \/ type = "NodeChildrenChanged" /\ w.h = "children"

\* The server's notification for the step from tree to tree': the fired
\* watches leave the client's table and queue for its event thread.
Notify ==
  LET type  == EventType(tree, tree', WatchApp)
      fired == SelectSeq(watches, LAMBDA w : Fires(w, type))
  IN  /\ watches' = SelectSeq(watches, LAMBDA w : ~Fires(w, type))
      /\ zkEvents' = zkEvents \o [k \in 1..Len(fired) |->
                                    [h |-> fired[k].h, ins |-> fired[k].ins, type |-> type]]

(***************************************************************************)
(* The registration engine                                                 *)
(***************************************************************************)

\* Zk::register and the start of RegFut's blocking task: create_path is
\* entered for the leaf path; a dynamic leaf skips the cache and exists
\* checks and recurses at once.
StartRegister(t, i) ==
  /\ tasks[t].op = "idle"
  /\ \A u \in 1..(t - 1) : tasks[u].op # "idle"
  /\ tasks' = [tasks EXCEPT ![t] =
       [op |-> "reg", ins |-> i, prev |-> regOk[i], skip |-> FALSE,
        after |-> (last.op = "dereg" /\ last.ins = i /\ last.res = "Ok"),
        cur |-> IF Dynamic(Ins[i]) /\ HasParent(LeafPath[i])
                THEN Parent(LeafPath[i]) ELSE LeafPath[i],
        pc |-> IF Dynamic(Ins[i]) /\ ~HasParent(LeafPath[i])
               THEN "create" ELSE "cacheRead"]]
  /\ last' = NoCall
  /\ UNCHANGED <<codec, locks, tree, cache, regOk, rootCreate, watchVars>>

\* RwLock: task t can take the guard of its statement. A reader waits for
\* a writer, a writer for every holder.
CanLock(t) ==
  IF LockMode(tasks[t].pc) = "read"
  THEN \A h \in locks.cache : h[2] # "write"
  ELSE locks.cache = {}

\* persistent_exist_node_path.read() / .write(): task t takes the guard of
\* the statement it is at.
LockCache(t) ==
  /\ locks.on
  /\ LockMode(tasks[t].pc) # "none"
  /\ \A h \in locks.cache : h[1] # t
  /\ CanLock(t)
  /\ locks' = [locks EXCEPT !.cache = @ \cup {<<t, LockMode(tasks[t].pc)>>}]
  /\ UNCHANGED <<codec, regVars, watchVars, calls>>

\* Task t holds the guard of the statement it is at.
Guarded(t) == locks.on => <<t, LockMode(tasks[t].pc)>> \in locks.cache

\* The guard is a temporary of the statement: it is dropped at its end.
DropGuard(t) == locks' = [locks EXCEPT !.cache = {h \in @ : h[1] # t}]

\* A create_path whose read guard lives to the end of the frame.
CacheReadKeepsGuard(t) ==
  /\ tasks[t].pc = "cacheRead"
  /\ Guarded(t)
  /\ IF tasks[t].cur \in cache
     THEN ReturnOk(t)
     ELSE /\ tasks' = [tasks EXCEPT ![t].pc = "exists"]
          /\ UNCHANGED <<regOk, last>>
  /\ UNCHANGED <<codec, locks, tree, cache, rootCreate, watchVars, calls>>

\* create_path, non-dynamic frame: persistent_exist_node_path.read()
\* .contains(path) returns Ok at once.
CacheRead(t) ==
  /\ tasks[t].pc = "cacheRead"
  /\ Guarded(t)
  /\ IF tasks[t].cur \in cache
     THEN ReturnOk(t)
     ELSE /\ tasks' = [tasks EXCEPT ![t].pc = "exists"]
          /\ UNCHANGED <<regOk, last>>
  /\ DropGuard(t)
  /\ UNCHANGED <<codec, tree, cache, rootCreate, watchVars, calls>>

\* create_path, non-dynamic frame: client.exists(path, false)
Exists(t) ==
  /\ tasks[t].pc = "exists"
  /\ IF ZkExists(tree, tasks[t].cur)
     THEN tasks' = [tasks EXCEPT ![t].pc = "cachePutExists"]
     ELSE Descend(t)
  /\ UNCHANGED <<codec, locks, tree, cache, regOk, last, rootCreate, watchVars, calls>>

\* create_path, non-dynamic frame: client.exists(path, false) returns an
\* error (the connection is lost); map_err(CreatePath)? returns it from
\* every frame, and the register resolves with it: no create is issued
\* and the cache is left as it is.
ExistsFails(t) ==
  /\ tasks[t].pc = "exists"
  /\ Resolve(t, "ConnectionLoss", tasks[t].cur)
  /\ UNCHANGED <<codec, locks, tree, cache, rootCreate, watchVars, calls>>

\* create_path, non-dynamic frame: the path exists, it is inserted into
\* the cache, and the frame goes on.
CachePutExists(t) ==
  /\ tasks[t].pc = "cachePutExists"
  /\ Guarded(t)
  /\ cache' = cache \cup {tasks[t].cur}
  /\ Descend(t)
  /\ DropGuard(t)
  /\ UNCHANGED <<codec, tree, regOk, last, rootCreate, watchVars, calls>>

\* create_path: client.create(path, ..), ephemeral for a dynamic frame; an
\* error resolves the register with CreatePath.
Create(t) ==
  /\ tasks[t].pc = "create"
  /\ rootCreate' = (rootCreate \/ tasks[t].cur = Root)
  /\ IF ZkCreateResult(tree, tasks[t].cur) = "Ok"
     THEN /\ tree' = ZkCreate(tree, tasks[t].cur,
                       IF FrameDynamic(tasks[t].ins, tasks[t].cur)
                       THEN "Ephemeral" ELSE "Persistent")
          /\ tasks' = [tasks EXCEPT ![t].pc = "cachePutCreated"]
          /\ UNCHANGED <<regOk, last>>
     ELSE /\ Resolve(t, ZkCreateResult(tree, tasks[t].cur), tasks[t].cur)
          /\ UNCHANGED tree
  /\ Notify
  /\ UNCHANGED <<codec, locks, cache, boot, cb, chan, mirror, delivered, ended, calls>>

\* create_path: the created path is inserted into the cache and the frame
\* returns Ok.
CachePutCreated(t) ==
  /\ tasks[t].pc = "cachePutCreated"
  /\ Guarded(t)
  /\ cache' = cache \cup {tasks[t].cur}
  /\ ReturnOk(t)
  /\ DropGuard(t)
  /\ UNCHANGED <<codec, tree, rootCreate, watchVars, calls>>

\* Zk::deregister and the start of DeRegFut's blocking task.
StartDeregister(t, i) ==
  /\ tasks[t].op = "idle"
  /\ \A u \in 1..(t - 1) : tasks[u].op # "idle"
  /\ tasks' = [tasks EXCEPT ![t] =
       [op |-> "dereg", ins |-> i, prev |-> regOk[i], after |-> FALSE, skip |-> FALSE,
        cur |-> LeafPath[i], pc |-> "deregCachePut"]]
  /\ last' = NoCall
  /\ UNCHANGED <<codec, locks, tree, cache, regOk, rootCreate, watchVars>>

\* DeRegFut: the leaf path is inserted into the cache before the delete.
DeregCachePut(t) ==
  /\ tasks[t].pc = "deregCachePut"
  /\ Guarded(t)
  /\ cache' = cache \cup {tasks[t].cur}
  /\ tasks' = [tasks EXCEPT ![t].pc = "delete"]
  /\ DropGuard(t)
  /\ UNCHANGED <<codec, tree, regOk, last, rootCreate, watchVars, calls>>

\* A deregister that deletes the application path in place of the leaf
\* path.
DeleteAppPath(t) ==
  /\ tasks[t].pc = "delete"
  /\ tree' = IF ZkDeleteResult(tree, Parent(tasks[t].cur)) = "Ok"
             THEN ZkDelete(tree, Parent(tasks[t].cur)) ELSE tree
  /\ Resolve(t, ZkDeleteResult(tree, Parent(tasks[t].cur)), Parent(tasks[t].cur))
  /\ Notify
  /\ UNCHANGED <<codec, locks, cache, rootCreate, boot, cb, chan, mirror, delivered, ended, calls>>

\* A deregister that resolves Ok when its leaf is not in the tree.
DeleteMissingOk(t) ==
  /\ tasks[t].pc = "delete"
  /\ tree' = IF ZkDeleteResult(tree, tasks[t].cur) = "Ok"
             THEN ZkDelete(tree, tasks[t].cur) ELSE tree
  /\ Resolve(t, IF ZkDeleteResult(tree, tasks[t].cur) = "NoNode" THEN "Ok"
                ELSE ZkDeleteResult(tree, tasks[t].cur), tasks[t].cur)
  /\ Notify
  /\ UNCHANGED <<codec, locks, cache, rootCreate, boot, cb, chan, mirror, delivered, ended, calls>>

\* DeRegFut: client.delete(path, None); an error resolves the deregister
\* with DeletePath.
Delete(t) ==
  /\ tasks[t].pc = "delete"
  /\ tree' = IF ZkDeleteResult(tree, tasks[t].cur) = "Ok"
             THEN ZkDelete(tree, tasks[t].cur) ELSE tree
  /\ Resolve(t, ZkDeleteResult(tree, tasks[t].cur), tasks[t].cur)
  /\ Notify
  /\ UNCHANGED <<codec, locks, cache, rootCreate, boot, cb, chan, mirror, delivered, ended, calls>>

\* Another client of the coordination service creates an application node
\* (a persistent ancestor of leaf paths).
AppPaths == UNION {Ancestors(LeafPath[i]) : i \in InsIds}

ExternalCreate(p) ==
  /\ p \in AppPaths
  /\ ZkCreateResult(tree, p) = "Ok"
  /\ tree' = ZkCreate(tree, p, "Persistent")
  /\ Notify
  /\ UNCHANGED <<cache, tasks, regOk, last, rootCreate>>
  /\ UNCHANGED <<codec, locks, boot, cb, chan, mirror, delivered, ended>>

\* Another client deletes an application node that has no children.
ExternalDelete(p) ==
  /\ p \in AppPaths
  /\ ZkDeleteResult(tree, p) = "Ok"
  /\ tree' = ZkDelete(tree, p)
  /\ Notify
  /\ UNCHANGED <<cache, tasks, regOk, last, rootCreate>>
  /\ UNCHANGED <<codec, locks, boot, cb, chan, mirror, delivered, ended>>

\* Another client creates, under the application node, a child whose name
\* is not an encoded instance.
ExternalCreateJunk ==
  /\ ZkCreateResult(tree, JunkPath) = "Ok"
  /\ tree' = ZkCreate(tree, JunkPath, "Persistent")
  /\ Notify
  /\ UNCHANGED <<cache, tasks, regOk, last, rootCreate>>
  /\ UNCHANGED <<codec, locks, boot, cb, chan, mirror, delivered, ended>>

\* The other client deletes that child.
ExternalDeleteJunk ==
  /\ ZkDeleteResult(tree, JunkPath) = "Ok"
  /\ tree' = ZkDelete(tree, JunkPath)
  /\ Notify
  /\ UNCHANGED <<cache, tasks, regOk, last, rootCreate>>
  /\ UNCHANGED <<codec, locks, boot, cb, chan, mirror, delivered, ended>>

RegInit ==
  /\ tree = [q \in {Root} |-> "Persistent"]
  /\ cache = {}
  /\ tasks = [t \in Tasks |-> IdleTask]
  /\ regOk = [i \in InsIds |-> FALSE]
  /\ last = NoCall
  /\ rootCreate = FALSE
  /\ calls = 0

\* One step of the blocking task t.
TaskStep(t) ==
  \/ CacheRead(t)
  \/ Exists(t)
  \/ ExistsFails(t)
  \/ CachePutExists(t)
  \/ Create(t)
  \/ CachePutCreated(t)
  \/ DeregCachePut(t)
  \/ Delete(t)


(***************************************************************************)
(* Instance identity (lib.rs) and the consumer-side set                    *)
(***************************************************************************)

\* impl Hash for Instance: appid, version, env, addrs
InstanceHash(x) == <<x.appid, x.version, x.env, x.addrs>>

\* #[derive(PartialEq, Eq)] on Instance: every field is compared
InstanceEq(x, y) ==
  /\ x.zone = y.zone
  /\ x.env = y.env
  /\ x.appid = y.appid
  /\ x.hostname = y.hostname
  /\ x.addrs = y.addrs
  /\ x.version = y.version
  /\ x.metadata = y.metadata

\* HashSet<Arc<Instance>>: an element is found by its hash, then by Eq.
SetContains(S, x) == \E y \in S : InstanceHash(y) = InstanceHash(x) /\ InstanceEq(y, x)

SetInsert(S, x) == IF SetContains(S, x) THEN S ELSE S \cup {x}

SetRemove(S, x) == {y \in S : ~(InstanceHash(y) = InstanceHash(x) /\ InstanceEq(y, x))}

(***************************************************************************)
(* The watch engine                                                        *)
(***************************************************************************)

\* The name of a child of the watched path: its last path segment.
LastSegment(q) == SubSeq(q, Len(WatchApp) + 2, Len(q))

ChildNameTable == [q \in AllPaths |-> LastSegment(q)]

ChildName(q) == ChildNameTable[q]

\* get_children_w(path, ..).unwrap_or(vec![]): the names of the children,
\* none when the call fails (the node does not exist).
ChildNames(t) ==
  IF WatchApp \in DOMAIN t THEN {ChildName(q) : q \in ZkChildren(t, WatchApp)} ELSE {}

\* The child names of the model: those the instances give, and the name
\* of the child of another client.
LeafNames == {encode(Ins[i], InsOrder[i]) : i \in DOMAIN Ins} \cup {JunkName}

\* decoder.decode of a child name of the watched path.
DecodeChild == [c \in LeafNames |-> decode(WatchApp, c)]

ChildrenWatch == [h |-> "children", ins |-> DefaultInstance]

ItemWatch(x) == [h |-> "item", ins |-> x]

Ev(kind, x) == [kind |-> kind, ins |-> x]

\* exists_w(path, ..) on the watched path reports the node absent.
ExistsNone(t) == ~ZkExists(t, WatchApp)

\* The position after a round of a for_each whose children left are todo.
NextRound(todo) == IF todo = {} THEN "done" ELSE "loop"

\* failed: the get_children_w of the task / of the last callback returned
\* an error. ins: the instance whose Create was sent and whose exists_w
\* is under way.
IdleBoot == [pc |-> "idle", todo |-> {}, failed |-> FALSE, ins |-> DefaultInstance]

\* item: the position of ZkInstanceItemWatchHandler::handle on the
\* client's event thread.
IdleCb ==
  [pc |-> "idle", todo |-> {}, prev |-> {}, cur |-> {}, posted |-> <<>>,
   failed |-> FALSE, ins |-> DefaultInstance, item |-> "idle"]

\* The client's event thread is inside a handler.
Handling == cb.pc \in {"loop", "exists", "delete"} \/ cb.item # "idle"

\* Zk::watch / ZkWatcher::new: the channel is made and the bootstrap task
\* is spawned on the blocking pool.
Watch ==
  /\ boot.pc = "idle"
  /\ boot' = [IdleBoot EXCEPT !.pc = "fetch"]
  /\ UNCHANGED <<codec, locks, regVars, watches, zkEvents, cb, chan, mirror, delivered, ended>>

\* The bootstrap task: get_children_w(appid, ZkInstanceWatchHandler).
BootFetch ==
  /\ boot.pc = "fetch"
  /\ boot' = [boot EXCEPT !.pc = NextRound(ChildNames(tree)),
                          !.todo = ChildNames(tree),
                          !.failed = ~ZkExists(tree, WatchApp)]
  /\ watches' = IF ZkExists(tree, WatchApp) THEN Append(watches, ChildrenWatch)
                ELSE watches
  /\ cb' = [cb EXCEPT !.cur = ChildNames(tree)]
  /\ UNCHANGED <<codec, locks, regVars, zkEvents, chan, mirror, delivered, ended, calls>>

\* A bootstrap whose for_each goes on to the existence watch of a child
\* and sends no Create for it.
BootStepNoCreate ==
  /\ boot.pc = "loop"
  /\ \E c \in boot.todo :
       /\ chan' = chan
       /\ boot' = IF DecodeChild[c].ok
                  THEN [boot EXCEPT !.pc = "exists", !.todo = boot.todo \ {c},
                                    !.ins = DecodeChild[c].val]
                  ELSE [boot EXCEPT !.pc = NextRound(boot.todo \ {c}),
                                    !.todo = boot.todo \ {c}]
  /\ UNCHANGED <<codec, locks, regVars, watches, zkEvents, cb, mirror, delivered, ended, calls>>

\* The bootstrap task, a round of its for_each up to the exists_w call: a
\* child that does not decode is skipped, else Create is sent.
BootStep ==
  /\ boot.pc = "loop"
  /\ \E c \in boot.todo :
       IF DecodeChild[c].ok
       THEN /\ chan' = Append(chan, Ev("Create", DecodeChild[c].val))
            /\ boot' = [boot EXCEPT !.pc = "exists", !.todo = boot.todo \ {c},
                                    !.ins = DecodeChild[c].val]
       ELSE /\ chan' = chan
            /\ boot' = [boot EXCEPT !.pc = NextRound(boot.todo \ {c}),
                                    !.todo = boot.todo \ {c}]
  /\ UNCHANGED <<codec, locks, regVars, watches, zkEvents, cb, mirror, delivered, ended, calls>>

\* A bootstrap whose round ends at the exists_w call, the path absent or
\* not.
BootExistsNoDelete ==
  /\ boot.pc = "exists"
  /\ watches' = Append(watches, ItemWatch(boot.ins))
  /\ boot' = [boot EXCEPT !.pc = NextRound(boot.todo), !.ins = DefaultInstance]
  /\ UNCHANGED <<codec, locks, regVars, zkEvents, cb, chan, mirror, delivered, ended, calls>>

\* The bootstrap task: exists_w(appid, ZkInstanceItemWatchHandler) returns
\* Ok; the watch is installed, and the round goes on to its Delete when
\* the path is absent.
BootExists ==
  /\ boot.pc = "exists"
  /\ watches' = Append(watches, ItemWatch(boot.ins))
  /\ boot' = IF ExistsNone(tree) THEN [boot EXCEPT !.pc = "delete"]
             ELSE [boot EXCEPT !.pc = NextRound(boot.todo), !.ins = DefaultInstance]
  /\ UNCHANGED <<codec, locks, regVars, zkEvents, cb, chan, mirror, delivered, ended, calls>>

\* The bootstrap task: exists_w returns an error (the connection is lost);
\* no watch is held and no Delete is sent.
BootExistsFails ==
  /\ boot.pc = "exists"
  /\ boot' = [boot EXCEPT !.pc = NextRound(boot.todo), !.ins = DefaultInstance]
  /\ UNCHANGED <<codec, locks, regVars, watches, zkEvents, cb, chan, mirror, delivered, ended, calls>>

\* The bootstrap task: the Delete after an exists_w that returned Ok(None).
BootDelete ==
  /\ boot.pc = "delete"
  /\ chan' = Append(chan, Ev("Delete", boot.ins))
  /\ boot' = [boot EXCEPT !.pc = NextRound(boot.todo), !.ins = DefaultInstance]
  /\ UNCHANGED <<codec, locks, regVars, watches, zkEvents, cb, mirror, delivered, ended, calls>>

\* ZkInstanceWatchHandler::handle, up to its for_each: the children of the
\* event's path are fetched again with a new handler.
HandleChildren ==
  /\ zkEvents # <<>>
  /\ Head(zkEvents).h = "children"
  /\ ~Handling
  /\ zkEvents' = Tail(zkEvents)
  /\ watches' = IF ZkExists(tree, WatchApp) THEN Append(watches, ChildrenWatch)
                ELSE watches
  /\ cb' = [IdleCb EXCEPT !.pc = NextRound(ChildNames(tree)),
                          !.todo = ChildNames(tree), !.prev = cb.cur,
                          !.cur = ChildNames(tree),
                          !.failed = ~ZkExists(tree, WatchApp)]
  /\ UNCHANGED <<codec, locks, regVars, boot, chan, mirror, delivered, ended, calls>>

\* The bootstrap's get_children_w returns an error while the path exists
\* (the connection is lost): unwrap_or gives no children, and the client
\* holds no watch.
BootFetchFails ==
  /\ boot.pc = "fetch"
  /\ ZkExists(tree, WatchApp)
  /\ boot' = [boot EXCEPT !.pc = "done", !.todo = {}, !.failed = TRUE]
  /\ cb' = [cb EXCEPT !.cur = {}]
  /\ UNCHANGED <<codec, locks, regVars, watches, zkEvents, chan, mirror, delivered, ended, calls>>

\* The callback's get_children_w returns an error while the path exists.
HandleChildrenFails ==
  /\ zkEvents # <<>>
  /\ Head(zkEvents).h = "children"
  /\ ~Handling
  /\ ZkExists(tree, WatchApp)
  /\ zkEvents' = Tail(zkEvents)
  /\ cb' = [IdleCb EXCEPT !.pc = "done", !.prev = cb.cur, !.failed = TRUE]
  /\ UNCHANGED <<codec, locks, regVars, boot, watches, chan, mirror, delivered, ended, calls>>

\* A children-change callback whose for_each ends at the first child that
\* does not decode.
CbStepStopsOnError ==
  /\ cb.pc = "loop"
  /\ \E c \in cb.todo :
       IF DecodeChild[c].ok
       THEN /\ chan' = Append(chan, Ev("Create", DecodeChild[c].val))
            /\ cb' = [cb EXCEPT !.pc = "exists", !.todo = cb.todo \ {c},
                                !.ins = DecodeChild[c].val,
                                !.posted = Append(@, Ev("Create", DecodeChild[c].val))]
       ELSE /\ chan' = chan
            /\ cb' = [cb EXCEPT !.pc = "done", !.todo = {}]
  /\ UNCHANGED <<codec, locks, regVars, boot, watches, zkEvents, mirror, delivered, ended, calls>>

\* ZkInstanceWatchHandler::handle, a round of its for_each up to the
\* exists_w call: a child that does not decode is skipped, else Create is
\* sent.
CbStep ==
  /\ cb.pc = "loop"
  /\ \E c \in cb.todo :
       IF DecodeChild[c].ok
       THEN /\ chan' = Append(chan, Ev("Create", DecodeChild[c].val))
            /\ cb' = [cb EXCEPT !.pc = "exists", !.todo = cb.todo \ {c},
                                !.ins = DecodeChild[c].val,
                                !.posted = Append(@, Ev("Create", DecodeChild[c].val))]
       ELSE /\ chan' = chan
            /\ cb' = [cb EXCEPT !.pc = NextRound(cb.todo \ {c}), !.todo = cb.todo \ {c}]
  /\ UNCHANGED <<codec, locks, regVars, boot, watches, zkEvents, mirror, delivered, ended, calls>>

\* ZkInstanceWatchHandler::handle: exists_w(path, ZkInstanceItemWatchHandler)
\* returns Ok; the watch is installed, and the round goes on to its Delete
\* when the path is absent.
CbExists ==
  /\ cb.pc = "exists"
  /\ watches' = Append(watches, ItemWatch(cb.ins))
  /\ cb' = IF ExistsNone(tree) THEN [cb EXCEPT !.pc = "delete"]
           ELSE [cb EXCEPT !.pc = NextRound(cb.todo), !.ins = DefaultInstance]
  /\ UNCHANGED <<codec, locks, regVars, boot, zkEvents, chan, mirror, delivered, ended, calls>>

\* ZkInstanceWatchHandler::handle: exists_w returns an error; no watch is
\* held and no Delete is sent.
CbExistsFails ==
  /\ cb.pc = "exists"
  /\ cb' = [cb EXCEPT !.pc = NextRound(cb.todo), !.ins = DefaultInstance]
  /\ UNCHANGED <<codec, locks, regVars, boot, watches, zkEvents, chan, mirror, delivered, ended, calls>>

\* ZkInstanceWatchHandler::handle: the Delete after an exists_w that
\* returned Ok(None).
CbDelete ==
  /\ cb.pc = "delete"
  /\ chan' = Append(chan, Ev("Delete", cb.ins))
  /\ cb' = [cb EXCEPT !.pc = NextRound(cb.todo), !.ins = DefaultInstance,
                      !.posted = Append(@, Ev("Delete", cb.ins))]
  /\ UNCHANGED <<codec, locks, regVars, boot, watches, zkEvents, mirror, delivered, ended, calls>>

\* What ZkInstanceItemWatchHandler::handle sends for the event's type.
ItemEvents(type, x) ==
  IF type = "NodeCreated" THEN <<Ev("Create", x)>>
  ELSE IF type = "NodeDeleted" THEN <<Ev("Delete", x)>>
  ELSE <<>>

\* ZkInstanceItemWatchHandler::handle, up to its exists_w call: the event
\* is sent on as Create or Delete.
HandleItem ==
  /\ zkEvents # <<>>
  /\ Head(zkEvents).h = "item"
  /\ ~Handling
  /\ zkEvents' = Tail(zkEvents)
  /\ chan' = chan \o ItemEvents(Head(zkEvents).type, Head(zkEvents).ins)
  /\ cb' = [cb EXCEPT !.item = "exists", !.ins = Head(zkEvents).ins]
  /\ UNCHANGED <<codec, locks, regVars, boot, watches, mirror, delivered, ended, calls>>

\* ZkInstanceItemWatchHandler::handle: exists_w returns Ok; the watch is
\* installed again, and the handler goes on to its Delete when the path is
\* absent.
ItemExists ==
  /\ cb.item = "exists"
  /\ watches' = Append(watches, ItemWatch(cb.ins))
  /\ cb' = IF ExistsNone(tree) THEN [cb EXCEPT !.item = "delete"]
           ELSE [cb EXCEPT !.item = "idle", !.ins = DefaultInstance]
  /\ UNCHANGED <<codec, locks, regVars, boot, zkEvents, chan, mirror, delivered, ended, calls>>

\* ZkInstanceItemWatchHandler::handle: exists_w returns an error; no watch
\* is held and no Delete is sent.
ItemExistsFails ==
  /\ cb.item = "exists"
  /\ cb' = [cb EXCEPT !.item = "idle", !.ins = DefaultInstance]
  /\ UNCHANGED <<codec, locks, regVars, boot, watches, zkEvents, chan, mirror, delivered, ended, calls>>

\* ZkInstanceItemWatchHandler::handle: the Delete after an exists_w that
\* returned Ok(None).
ItemDelete ==
  /\ cb.item = "delete"
  /\ chan' = Append(chan, Ev("Delete", cb.ins))
  /\ cb' = [cb EXCEPT !.item = "idle", !.ins = DefaultInstance]
  /\ UNCHANGED <<codec, locks, regVars, boot, watches, zkEvents, mirror, delivered, ended, calls>>

\* ZkWatcher::poll_next on an event e of the channel: the set after it.
MirrorAfter(S, e) ==
  IF e.kind = "Create"
  THEN (IF SetContains(S, e.ins) THEN S ELSE SetInsert(S, e.ins))
  ELSE (IF SetContains(S, e.ins) THEN SetRemove(S, e.ins) ELSE S)

\* A poll_next that yields every Create, in the set or not.
ForwardedEveryCreate(S, e) ==
  IF e.kind = "Create" THEN TRUE ELSE SetContains(S, e.ins)

\* ZkWatcher::poll_next on an event e: it is yielded (Ready), not dropped.
Forwarded(S, e) ==
  IF e.kind = "Create" THEN ~SetContains(S, e.ins) ELSE SetContains(S, e.ins)

\* A poll_next that takes the newest event of the channel.
PollNewest ==
  /\ boot.pc # "idle"
  /\ ~ended
  /\ chan # <<>>
  /\ chan' = SubSeq(chan, 1, Len(chan) - 1)
  /\ mirror' = MirrorAfter(mirror, chan[Len(chan)])
  /\ delivered' = IF Forwarded(mirror, chan[Len(chan)])
                  THEN Append(delivered, chan[Len(chan)]) ELSE delivered
  /\ UNCHANGED <<codec, locks, regVars, boot, watches, zkEvents, cb, ended, calls>>

\* ZkWatcher::poll_next, self.instances.lock(): the poll takes the guard
\* for its contains, and after that one is dropped, a second one for the
\* insert or remove of an event it yields.
LockMirror ==
  /\ locks.on
  /\ boot.pc # "idle"
  /\ ~ended
  /\ chan # <<>>
  /\ \/ locks.poll = "idle" /\ locks' = [locks EXCEPT !.poll = "contains"]
     \/ /\ locks.poll = "checked"
        /\ Forwarded(mirror, Head(chan))
        /\ locks' = [locks EXCEPT !.poll = "update"]
  /\ UNCHANGED <<codec, regVars, watchVars, calls>>

\* The guard of the contains is a temporary of the if condition: it is
\* dropped before either branch runs.
UnlockMirror ==
  /\ locks.on
  /\ locks.poll = "contains"
  /\ locks' = [locks EXCEPT !.poll = "checked"]
  /\ UNCHANGED <<codec, regVars, watchVars, calls>>

\* The poll is at the end of its statements on the set.
PollGuarded ==
  locks.on =>
    locks.poll = (IF Forwarded(mirror, Head(chan)) THEN "update" ELSE "checked")

\* ZkWatcher::poll_next with an event in the channel.
Poll ==
  /\ boot.pc # "idle"
  /\ ~ended
  /\ chan # <<>>
  /\ PollGuarded
  /\ chan' = Tail(chan)
  /\ mirror' = MirrorAfter(mirror, Head(chan))
  /\ delivered' = IF Forwarded(mirror, Head(chan)) THEN Append(delivered, Head(chan))
                  ELSE delivered
  /\ locks' = [locks EXCEPT !.poll = "idle"]
  /\ UNCHANGED <<codec, regVars, boot, watches, zkEvents, cb, ended, calls>>

\* A sender of the channel is alive: the bootstrap task, an installed or a
\* fired watch, or the running handler holds one.
SenderAlive ==
  \/ boot.pc \in {"fetch", "loop", "exists", "delete"}
  \/ watches # <<>>
  \/ zkEvents # <<>>
  \/ Handling

\* A poll_next that yields the end whenever the channel is empty.
PollEndEarly ==
  /\ boot.pc # "idle"
  /\ ~ended
  /\ chan = <<>>
  /\ ended' = TRUE
  /\ UNCHANGED <<codec, locks, regVars, boot, watches, zkEvents, cb, chan, mirror, delivered, calls>>

\* ZkWatcher::poll_next on the closed, empty channel: the stream ends.
PollEnd ==
  /\ boot.pc # "idle"
  /\ ~ended
  /\ chan = <<>>
  /\ ~SenderAlive
  /\ ended' = TRUE
  /\ UNCHANGED <<codec, locks, regVars, boot, watches, zkEvents, cb, chan, mirror, delivered, calls>>

\* What the watch stream yields: an event, or its end.
Some(e) == [some |-> TRUE, event |-> e]

None == [some |-> FALSE]

\* The service AppDiscover's service_creater makes of an instance.
service_creater(x) == [of |-> x]

Terminated == [ok |-> FALSE, err |-> "Terminated"]

\* A poll_discover that keys a change by the appid and the zone.
PollDiscoverByInstance(item) ==
  IF ~item.some THEN Terminated
  ELSE IF item.event.kind = "Create"
  THEN [ok |-> TRUE, kind |-> "Insert", key |-> item.event.ins.appid \o item.event.ins.zone,
        svc |-> service_creater(item.event.ins)]
  ELSE [ok |-> TRUE, kind |-> "Remove", key |-> item.event.ins.appid \o item.event.ins.zone]

\* AppDiscover::poll_discover on what the watcher's poll_next yielded:
\* Create gives Insert and Delete gives Remove, both keyed by ins.appid;
\* the end of the stream gives Err(Terminated).
poll_discover(item) ==
  IF ~item.some THEN Terminated
  ELSE IF item.event.kind = "Create"
  THEN [ok |-> TRUE, kind |-> "Insert", key |-> item.event.ins.appid,
        svc |-> service_creater(item.event.ins)]
  ELSE [ok |-> TRUE, kind |-> "Remove", key |-> item.event.ins.appid]

\* What an AppDiscover over the watcher has reported so far, in order.
Discovered ==
  [k \in 1..Len(delivered) |-> poll_discover(Some(delivered[k]))]
    \o (IF ended THEN <<poll_discover(None)>> ELSE <<>>)

WatchInit ==
  /\ boot = IdleBoot
  /\ watches = <<>>
  /\ zkEvents = <<>>
  /\ cb = IdleCb
  /\ chan = <<>>
  /\ mirror = {}
  /\ delivered = <<>>
  /\ ended = FALSE

\* No use of the codec on its own is under way.
NoCodec ==
  [pc |-> "idle", x |-> DefaultInstance, enc |-> <<>>,
   dec |-> [ok |-> FALSE, val |-> DefaultInstance]]

Init == RegInit /\ WatchInit /\ codec = NoCodec /\ locks = NoLocks

(***************************************************************************)
(* Specifications                                                          *)
(***************************************************************************)

\* Calls awaited one after the other on one registry, other clients
\* creating and deleting application nodes in between.
SeqNext ==
  \/ \E i \in InsIds : AllIdle /\ StartRegister(1, i) /\ UNCHANGED calls
  \/ \E i \in InsIds : AllIdle /\ StartDeregister(1, i) /\ UNCHANGED calls
  \/ TaskStep(1)
  \/ \E p \in AppPaths : ExternalCreate(p) /\ UNCHANGED calls
  \/ \E p \in AppPaths : ExternalDelete(p) /\ UNCHANGED calls

SpecSeq == Init /\ [][SeqNext]_vars

\* The instances concurrent callers register.
ConcIds == {"i1", "i2", "i3"}

\* Concurrent callers of one registry.
ConcNext ==
  \/ \E t \in Tasks, i \in ConcIds : StartRegister(t, i) /\ UNCHANGED calls
  \/ \E t \in Tasks, i \in ConcIds : StartDeregister(t, i) /\ UNCHANGED calls
  \/ \E t \in Tasks : TaskStep(t)
  \/ \E p \in AppPaths : ExternalCreate(p) /\ UNCHANGED calls

SpecConc == Init /\ [][ConcNext]_vars

\* The number of calls the environment makes in the watch specification.
MaxCalls == 4

\* The members of the watched application.
WatchIds == {"i1", "i3"}

\* The number of calls in the watch specifications that add failed server
\* calls, another client's child or the runtime's scheduling.
FewCalls == 3

\* One call of the environment, of at most n: it is counted.
Call(n, A) == calls < n /\ calls' = calls + 1 /\ A

\* The calls on the watched application, awaited one after the other.
WatchCalls(n) ==
  \/ \E i \in WatchIds : Call(n, AllIdle /\ StartRegister(1, i))
  \/ \E i \in WatchIds : Call(n, AllIdle /\ StartDeregister(1, i))
  \/ Call(n, ExternalCreate(WatchApp))
  \/ Call(n, ExternalDelete(WatchApp))

\* The steps of the blocking tasks, of the client's event thread and of
\* the consumer.
WatchSteps ==
  \/ TaskStep(1)
  \/ Watch /\ UNCHANGED calls
  \/ BootFetch
  \/ BootStep
  \/ BootExists
  \/ BootDelete
  \/ HandleChildren
  \/ CbStep
  \/ CbExists
  \/ CbDelete
  \/ HandleItem
  \/ ItemExists
  \/ ItemDelete
  \/ Poll
  \/ PollEnd

\* A watcher on one application.
WatchNext == WatchCalls(MaxCalls) \/ WatchSteps

SpecWatch == Init /\ [][WatchNext]_vars


\* tests/zk.rs test_watch: the calls of the test, each awaited before the
\* next; watch returns at once and its bootstrap runs on the blocking pool.
Scenario ==
  << [op |-> "reg", ins |-> "i1"],
     [op |-> "watch", ins |-> "i1"],
     [op |-> "reg", ins |-> "i2"],
     [op |-> "dereg", ins |-> "i1"],
     [op |-> "dereg", ins |-> "i2"] >>

ScenarioCall(c) ==
  IF c.op = "reg" THEN StartRegister(1, c.ins)
  ELSE IF c.op = "dereg" THEN StartDeregister(1, c.ins)
  ELSE Watch

\* The test on a fresh tree: no node exists before the first register and
\* the watched path is never deleted, so the steps that need either are
\* not part of this specification.
ScenarioNext ==
  \/ \E k \in 1..Len(Scenario) :
       calls = k - 1 /\ calls' = k /\ AllIdle /\ ScenarioCall(Scenario[k])
  \/ CacheRead(1)
  \/ Exists(1)
  \/ Create(1)
  \/ CachePutCreated(1)
  \/ DeregCachePut(1)
  \/ Delete(1)
  \/ BootFetch
  \/ BootStep
  \/ BootExists
  \/ HandleChildren
  \/ CbStep
  \/ CbExists
  \/ Poll

SpecScenario == Init /\ [][ScenarioNext]_vars

(***************************************************************************)
(* The default codec on its own                                            *)
(***************************************************************************)

\* The field values of the instances handed to the codec: empty strings,
\* characters of the encode set, no address and several, metadata with a
\* quote in a value.
CodecZones == {<<>>, <<"z">>, <<"a", " ", "=", "&">>, <<"u233">>}
CodecEnvs == {<<"e">>, <<"t", "/">>}
CodecHosts == {<<>>, <<"h">>}
CodecAddrs == {<<>>, << <<"x", ":", "1">> >>, << <<"x", ":", "1">>, <<"y">> >>}
CodecMetadata ==
  {EmptyMap, MapPut(EmptyMap, sDynamic, sTrue), MapPut(EmptyMap, <<"k">>, <<"%", "\"">>),
   MapPut(MapPut(EmptyMap, sDynamic, sFalse), <<"k">>, <<"c10", "u8364">>)}

CodecInputs ==
  {[zone |-> z, env |-> e, appid |-> a, hostname |-> h, addrs |-> ad,
    version |-> <<"1">>, metadata |-> m] :
     z \in CodecZones, e \in CodecEnvs, a \in {AppA, AppB}, h \in CodecHosts,
     ad \in CodecAddrs, m \in CodecMetadata}

CodecInit ==
  /\ RegInit
  /\ WatchInit
  /\ \E x \in CodecInputs : codec = [NoCodec EXCEPT !.pc = "new", !.x = x]
  /\ locks = NoLocks

\* The value encoder applied to the instance.
Encode ==
  /\ codec.pc = "new"
  /\ \E ks \in HashOrders(DOMAIN codec.x.metadata) :
       codec' = [codec EXCEPT !.pc = "encoded", !.enc = encode(codec.x, ks)]
  /\ UNCHANGED <<regVars, watchVars, calls, locks>>

\* The decoder applied to the key and the encoded value of the instance.
Decode ==
  /\ codec.pc = "encoded"
  /\ codec' = [codec EXCEPT !.pc = "decoded",
                            !.dec = decode(key_encode(codec.x), codec.enc)]
  /\ UNCHANGED <<regVars, watchVars, calls, locks>>

CodecNext == Encode \/ Decode

SpecCodec == CodecInit /\ [][CodecNext]_vars

\* The watch specification with children fetches that fail while the
\* watched path exists.
WatchErrNext ==
  \/ WatchCalls(FewCalls)
  \/ WatchSteps
  \/ BootFetchFails
  \/ HandleChildrenFails
  \/ BootExistsFails
  \/ CbExistsFails
  \/ ItemExistsFails

SpecWatchErr == Init /\ [][WatchErrNext]_vars

\* The watch specification with the scheduling the runtime gives: a
\* spawned blocking task runs to its end, the client's event thread handles
\* every fired watch, and the consumer keeps polling the stream.
WatchFairness ==
  /\ WF_vars(TaskStep(1))
  /\ WF_vars(BootFetch)
  /\ WF_vars(BootStep)
  /\ WF_vars(BootExists)
  /\ WF_vars(BootDelete)
  /\ WF_vars(HandleChildren)
  /\ WF_vars(CbStep)
  /\ WF_vars(CbExists)
  /\ WF_vars(CbDelete)
  /\ WF_vars(HandleItem)
  /\ WF_vars(ItemExists)
  /\ WF_vars(ItemDelete)
  /\ WF_vars(Poll)

WatchFairNext == WatchCalls(FewCalls) \/ WatchSteps

SpecWatchFair == Init /\ [][WatchFairNext]_vars /\ WatchFairness

\* The watcher, with another client that creates and deletes a child of
\* the watched application whose name does not decode.
WatchJunkNext ==
  \/ WatchCalls(FewCalls)
  \/ WatchSteps
  \/ Call(FewCalls, ExternalCreateJunk)
  \/ Call(FewCalls, ExternalDeleteJunk)

SpecWatchJunk == Init /\ [][WatchJunkNext]_vars

\* Calls on one application with an AppDiscover over its watcher: a first
\* instance comes and goes, the application node is deleted and created
\* again by another client, and a second instance is registered.
DiscoverScenario ==
  << [op |-> "reg", ins |-> "i1"],
     [op |-> "watch", ins |-> "i1"],
     [op |-> "dereg", ins |-> "i1"],
     [op |-> "delete", ins |-> "i1"],
     [op |-> "create", ins |-> "i1"],
     [op |-> "reg", ins |-> "i3"] >>

DiscoverCall(c) ==
  IF c.op = "reg" THEN AllIdle /\ StartRegister(1, c.ins)
  ELSE IF c.op = "dereg" THEN AllIdle /\ StartDeregister(1, c.ins)
  ELSE IF c.op = "delete" THEN ExternalDelete(WatchApp)
  ELSE IF c.op = "create" THEN ExternalCreate(WatchApp)
  ELSE Watch

\* The calls in their order, each awaited before the next; the blocking
\* tasks, the client's event thread and the consumer run in between.
DiscoverNext ==
  \/ \E k \in 1..Len(DiscoverScenario) :
       calls = k - 1 /\ calls' = k /\ DiscoverCall(DiscoverScenario[k])
  \/ CacheRead(1)
  \/ Exists(1)
  \/ Create(1)
  \/ CachePutCreated(1)
  \/ DeregCachePut(1)
  \/ Delete(1)
  \/ BootFetch
  \/ BootStep
  \/ BootExists
  \/ BootDelete
  \/ HandleChildren
  \/ CbStep
  \/ CbExists
  \/ CbDelete
  \/ HandleItem
  \/ ItemExists
  \/ ItemDelete
  \/ Poll
  \/ PollEnd

SpecDiscover == Init /\ [][DiscoverNext]_vars

\* The instances concurrent callers register while a watcher is polled.
LockIds == {"i3"}

\* The number of calls the callers make in the lock specification.
MaxLockCalls == 3

LockCall(A) == calls < MaxLockCalls /\ calls' = calls + 1 /\ A

LockInit ==
  RegInit /\ WatchInit /\ codec = NoCodec /\ locks = [NoLocks EXCEPT !.on = TRUE]

\* Concurrent callers of one registry, the callbacks of a watcher and the
\* consumer's poll, with every acquisition of a lock a step of its own.
LockNext ==
  \/ \E t \in Tasks, i \in LockIds : LockCall(StartRegister(t, i))
  \/ \E t \in Tasks, i \in LockIds : LockCall(StartDeregister(t, i))
  \/ \E t \in Tasks : LockCache(t)
  \/ \E t \in Tasks : TaskStep(t)
  \/ Watch /\ UNCHANGED calls
  \/ BootFetch
  \/ BootStep
  \/ BootExists
  \/ HandleChildren
  \/ CbStep
  \/ CbExists
  \/ LockMirror
  \/ UnlockMirror
  \/ Poll
  \/ PollEnd

SpecLocks == LockInit /\ [][LockNext]_vars

(***************************************************************************)
(* Registration claims                                                     *)
(***************************************************************************)

\* The rule of the leaf's create mode, as the claims state it: ephemeral
\* when metadata["dynamic"] is absent or equals "true".
EphemeralByRule(ins) ==
  \/ sDynamic \notin DOMAIN ins.metadata
  \/ ins.metadata[sDynamic] = sTrue

\* C1: when register(ins) has resolved Ok, the tree holds the node
\* ins.appid + "/" + encode(ins), every proper ancestor of it other than
\* the root is a persistent node, and no create was issued for the root.
C1_RegisterOkLeavesLeaf ==
  (last.op = "reg" /\ last.res = "Ok") =>
     /\ LeafPath[last.ins] \in DOMAIN tree
     /\ \A a \in Ancestors(LeafPath[last.ins]) :
          a \in DOMAIN tree /\ tree[a] = "Persistent"
     /\ ~rootCreate

\* C2: when deregister(ins) has resolved and the call on ins resolved
\* before it was a register that resolved Ok, the tree holds no node at
\* ins.appid + "/" + encode(ins), for ephemeral and persistent leaves.
C2_DeregisterRemovesLeaf ==
  (last.op = "dereg" /\ last.prev) => LeafPath[last.ins] \notin DOMAIN tree

\* A deregister of a persistent leaf that a register created has resolved
\* Ok.
C2_Witness ==
  /\ last.op = "dereg"
  /\ last.prev
  /\ last.res = "Ok"
  /\ ~Dynamic(Ins[last.ins])

\* C3: a register of an instance whose previous call was a register that
\* resolved Ok (no deregister in between) resolves, the connection being
\* up, with the CreatePath "exists" error of its leaf, for dynamic and
\* non-dynamic instances.
C3_SecondRegisterFails ==
  (last.op = "reg" /\ last.prev /\ last.res # "ConnectionLoss") =>
     (last.res = "NodeExists" /\ last.at = LeafPath[last.ins])

\* C4: a leaf in the tree is an ephemeral node when metadata["dynamic"] of
\* its instance is absent or "true", and a persistent node for every other
\* value.
C4_LeafModeFollowsDynamic ==
  \A i \in InsIds :
    LeafPath[i] \in DOMAIN tree =>
      tree[LeafPath[i]] = IF EphemeralByRule(Ins[i]) THEN "Ephemeral" ELSE "Persistent"

\* Leaves of instances with dynamic absent, "true", "false" and "1" are in
\* the tree.
C4_Witness == \A i \in InsIds : LeafPath[i] \in DOMAIN tree

\* C5: no register fails because an ancestor of its leaf path exists: no
\* register resolves with the "exists" error of a create of an ancestor.
C5_AncestorExistsTolerated ==
  ~(last.op = "reg" /\ last.res = "NodeExists" /\ last.at # LeafPath[last.ins])


\* C15: the step that resolves a deregister whose leaf is not in the tree
\* resolves it with the DeletePath error of the missing node and leaves
\* the tree as it is.
C15_DeregisterMissingLeafFails ==
  [][\A t \in Tasks :
       (tasks[t].pc = "delete" /\ tasks[t].cur \notin DOMAIN tree
          /\ tasks'[t].pc # "delete") =>
         (last'.op = "dereg" /\ last'.res = "NoNode" /\ tree' = tree)]_vars

\* A deregister of an instance that was not registered has resolved with
\* the error of the missing node.
C15_Witness ==
  /\ last.op = "dereg"
  /\ ~last.prev
  /\ last.res = "NoNode"
  /\ LeafPath[last.ins] \notin DOMAIN tree

\* C19: when a register that follows a deregister of the same instance
\* that resolved Ok has resolved Ok, the leaf of the instance is in the
\* tree, for dynamic and non-dynamic instances.
C19_ReRegisterCreatesLeaf ==
  (last.op = "reg" /\ last.after /\ last.res = "Ok") =>
     LeafPath[last.ins] \in DOMAIN tree

\* C20: a register one of whose frames found its path in the cache while
\* the path was not in the tree resolves Ok, with its leaf in the tree.
C20_FalsePositiveOnlySkips ==
  (last.op = "reg" /\ last.skip) =>
     (last.res = "Ok" /\ LeafPath[last.ins] \in DOMAIN tree)

(***************************************************************************)
(* Watch claims                                                            *)
(***************************************************************************)

\* The instance the watcher decodes from the leaf name of instance i.
Decoded == [i \in DOMAIN Ins |-> DecodeChild[encode(Ins[i], InsOrder[i])].val]

\* The number of occurrences of e in the sequence q.
Count(q, e) == Cardinality({k \in 1..Len(q) : q[k] = e})

\* The watcher is bootstrapped and nothing is in flight: no call is
\* running, no fired watch is waiting, no handler is running, and the
\* consumer has drained the channel.
Quiescent ==
  /\ boot.pc = "done"
  /\ AllIdle
  /\ zkEvents = <<>>
  /\ ~Handling
  /\ chan = <<>>

\* C6: once the calls have stopped and the consumer has drained the
\* stream, it has received one more Create than Delete for every instance
\* registered under the watched application, and as many Deletes as
\* Creates for every other instance.
C6_DrainedStreamMatchesMembership ==
  Quiescent =>
    \A i \in WatchIds :
      Count(delivered, Ev("Create", Decoded[i])) - Count(delivered, Ev("Delete", Decoded[i]))
        = IF LeafPath[i] \in DOMAIN tree THEN 1 ELSE 0

\* C7: a children-change callback that has run has posted one Create for
\* each child that was not in the previous snapshot, one Delete for each
\* child of the previous snapshot that is gone, and nothing else.
C7_CallbackPostsDifference ==
  cb.pc = "done" =>
    \A c \in LeafNames :
      /\ Count(cb.posted, Ev("Create", DecodeChild[c].val))
           = IF c \in cb.cur \ cb.prev THEN 1 ELSE 0
      /\ Count(cb.posted, Ev("Delete", DecodeChild[c].val))
           = IF c \in cb.prev \ cb.cur THEN 1 ELSE 0

\* The kind and the addresses of the events of a sequence.
KindAndAddrs(q) == [k \in 1..Len(q) |-> <<q[k].kind, q[k].ins.addrs>>]

\* C8: after register(i1); watch; register(i2); deregister(i1);
\* deregister(i2), once everything has run and the stream is drained, the
\* stream has yielded Create(i1), Create(i2), Delete(i1), Delete(i2) in
\* this order.
C8_ScenarioYieldsFourEvents ==
  (calls = Len(Scenario) /\ Quiescent) =>
    KindAndAddrs(delivered) =
      << <<"Create", Ins["i1"].addrs>>, <<"Create", Ins["i2"].addrs>>,
         <<"Delete", Ins["i1"].addrs>>, <<"Delete", Ins["i2"].addrs>> >>

\* The kinds of the yielded events of instance x, in order.
KindsOf(q, x) ==
  LET own == SelectSeq(q, LAMBDA e : e.ins = x)
  IN  [k \in 1..Len(own) |-> own[k].kind]

\* C9: for every instance the yielded events alternate Create, Delete,
\* Create, ... starting with Create, and the instance is in the
\* consumer-side set exactly after a yielded Create.
C9_YieldedEventsAlternate ==
  \A n \in 1..Len(delivered) :
    LET ks == KindsOf(delivered, delivered[n].ins)
    IN  /\ \A k \in 1..Len(ks) : ks[k] = IF k % 2 = 1 THEN "Create" ELSE "Delete"
        /\ (delivered[n].ins \in mirror) = (Len(ks) % 2 = 1)

\* A Create and a Delete of an instance have been yielded, and a second
\* Delete of it, a duplicate, is the next event of the channel.
C9_Witness ==
  /\ chan # <<>>
  /\ Head(chan).kind = "Delete"
  /\ KindsOf(delivered, Head(chan).ins) = <<"Create", "Delete">>

\* C10: no two members of the consumer-side set agree on appid, version,
\* env and addrs: a Create of an instance is dropped while an instance
\* with the same four fields is in the set.
C10_OneMemberPerIdentity ==
  \A x, y \in mirror : InstanceHash(x) = InstanceHash(y) => x = y

\* C11: the events of the channel leave it in the order in which they
\* were posted: a step posts events behind those waiting or takes the
\* oldest one, and an event the stream yields is the oldest one waiting,
\* whichever callback posted it.
C11_YieldedInPostedOrder ==
  [][/\ \/ /\ Len(chan') >= Len(chan)
           /\ SubSeq(chan', 1, Len(chan)) = chan
        \/ /\ chan # <<>>
           /\ chan' = Tail(chan)
     /\ delivered' # delivered =>
          /\ chan # <<>>
          /\ chan' = Tail(chan)
          /\ delivered' = Append(delivered, Head(chan))]_vars

\* Two events posted by different invocations have been yielded in the
\* order of their posting: the last children-change callback posted the
\* second one only, the first was posted before that callback ran.
C11_Witness ==
  /\ boot.pc = "done"
  /\ cb.pc = "done"
  /\ chan = <<>>
  /\ Len(delivered) = 2
  /\ cb.posted = <<delivered[2]>>
  /\ delivered[1] # delivered[2]

\* A Create of the instance of child name c has been yielded.
CreateYielded(c) ==
  \E k \in 1..Len(delivered) : delivered[k] = Ev("Create", DecodeChild[c].val)

\* C12: every child the bootstrap's fetch returned (the todo of its
\* for_each; the leaves of the instances registered before the fetch) is
\* yielded to the consumer as a Create of the instance its name decodes to.
C12_BootstrapCreatesYielded ==
  \A i \in WatchIds :
    (boot.pc = "loop" /\ encode(Ins[i], InsOrder[i]) \in boot.todo)
      ~> CreateYielded(encode(Ins[i], InsOrder[i]))

\* Two instances were registered before the watch, no callback has run,
\* and the stream has yielded the Create of each.
C12_Witness ==
  /\ boot.pc = "done"
  /\ cb.pc = "idle"
  /\ calls = 2
  /\ \A i \in WatchIds : CreateYielded(encode(Ins[i], InsOrder[i]))

\* C16: while the watched path exists, once everything has run and the
\* stream is drained, no instance whose leaf is gone from the tree is left
\* in the consumer-side set: the deletion of the child alone has led to a
\* yielded Delete.
C16_ChildDeletionYieldsDelete ==
  (Quiescent /\ ZkExists(tree, WatchApp)) =>
    \A i \in WatchIds :
      SetContains(mirror, Decoded[i]) => LeafPath[i] \in DOMAIN tree

\* C17: after a children fetch of the bootstrap or of a callback has
\* failed, the stream does not end.
C17_StreamSurvivesFailedFetch ==
  (boot.failed \/ cb.failed) => ~ended

\* C18: once a callback whose children fetch failed has run and the stream
\* is drained, a Delete has been yielded for every child of the fetch
\* before it: none of their instances is left in the consumer-side set.
C18_FailedRearmDeletesKnown ==
  (Quiescent /\ cb.pc = "done" /\ cb.failed) =>
    \A c \in cb.prev : ~SetContains(mirror, DecodeChild[c].val)

\* C21: a child whose name fails to decode gives no event and does not
\* stop the watcher.  When a callback has finished a fetch that holds such
\* a child, the stream has not ended, the callback has posted one Create
\* for every other child of the fetch, and every event it posted is for
\* one of those children; when the bootstrap has finished such a fetch and
\* no callback has run, the Create of every other child of the fetch is in
\* the channel or was yielded.
C21_UndecodableChildSkipped ==
  /\ ~DecodeChild[JunkName].ok
  /\ (cb.pc = "done" /\ JunkName \in cb.cur) =>
        /\ ~ended
        /\ \A c \in cb.cur \ {JunkName} :
             Count(cb.posted, Ev("Create", DecodeChild[c].val)) = 1
        /\ \A k \in 1..Len(cb.posted) :
             \E c \in cb.cur \ {JunkName} : cb.posted[k].ins = DecodeChild[c].val
  /\ (boot.pc = "done" /\ cb.pc = "idle" /\ JunkName \in cb.cur) =>
        /\ ~ended
        /\ \A c \in cb.cur \ {JunkName} :
             Count(chan \o delivered, Ev("Create", DecodeChild[c].val)) >= 1

\* A callback has finished a fetch of the undecodable child and two
\* instances, and has posted for the instances.
C21_Witness ==
  /\ cb.pc = "done"
  /\ JunkName \in cb.cur
  /\ Cardinality(cb.cur) = 3
  /\ Len(cb.posted) >= 2

\* The bootstrap, the children-change callback or the per-child callback
\* goes from its exists_w call to its Delete for instance x: the send is
\* the next statement of its round.
GoesToDelete(x) ==
  \/ boot.pc = "exists" /\ boot'.pc = "delete" /\ boot'.ins = x
  \/ cb.pc = "exists" /\ cb'.pc = "delete" /\ cb'.ins = x
  \/ cb.item = "exists" /\ cb'.item = "delete" /\ cb'.ins = x

\* C22: whenever an existence watch is installed, by the bootstrap, by the
\* children-change callback or by the per-child callback, and the exists
\* call reports the path absent, the installer goes on to its Delete for
\* the instance of that watch, and its next step, whatever the other
\* threads did in between, posts that Delete as the newest event of the
\* channel.
C22_AbsentExistsPostsDelete ==
  [][/\ (/\ Len(watches') = Len(watches) + 1
         /\ watches'[Len(watches')].h = "item"
         /\ ExistsNone(tree))
        => GoesToDelete(watches'[Len(watches')].ins)
     /\ (boot.pc = "delete" /\ boot'.pc # "delete")
        => chan' = Append(chan, Ev("Delete", boot.ins))
     /\ (cb.pc = "delete" /\ cb'.pc # "delete")
        => chan' = Append(chan, Ev("Delete", cb.ins))
     /\ (cb.item = "delete" /\ cb'.item # "delete")
        => chan' = Append(chan, Ev("Delete", cb.ins))]_vars

\* A bootstrap round has installed an existence watch while the watched
\* path was absent: the Create and the Delete of its instance are the
\* newest events of the channel.
C22_Witness ==
  /\ ExistsNone(tree)
  /\ watches # <<>>
  /\ watches[Len(watches)].h = "item"
  /\ Len(chan) >= 2
  /\ chan[Len(chan) - 1] = Ev("Create", watches[Len(watches)].ins)
  /\ chan[Len(chan)] = Ev("Delete", watches[Len(watches)].ins)
  /\ boot.pc = "done"
  /\ cb.pc = "idle"

\* C23: the stream yields its end, and AppDiscover a final Terminated,
\* when every sender of the event channel has been dropped, and not
\* before.  Once the stream has ended no sender is alive, the channel is
\* empty and Terminated is the last thing AppDiscover reported; Terminated
\* is reported nowhere else; and when the channel is empty with no sender
\* alive, the next poll yields the end.
C23_EndIffSendersDropped ==
  /\ ended => /\ ~SenderAlive
              /\ chan = <<>>
              /\ Discovered[Len(Discovered)] = Terminated
  /\ \A k \in 1..Len(Discovered) :
       ~Discovered[k].ok => (ended /\ k = Len(Discovered))
  /\ (boot.pc # "idle" /\ ~ended /\ chan = <<>> /\ ~SenderAlive) => ENABLED PollEnd

\* The bootstrap found the watched path without children; its children
\* watch has fired, the callback's fetch failed and installed no watch,
\* and the stream has ended with Terminated.
C23_Witness ==
  /\ ended
  /\ boot.pc = "done"
  /\ cb.pc = "done"
  /\ cb.failed
  /\ Discovered = <<Terminated>>

\* The keys a consumer of the changes q holds: those of an Insert with no
\* later Remove of the same key.
KeysOf(q) ==
  {q[j].key : j \in {j \in 1..Len(q) :
     /\ q[j].ok
     /\ q[j].kind = "Insert"
     /\ \A m \in (j + 1)..Len(q) :
          ~(q[m].ok /\ q[m].kind = "Remove" /\ q[m].key = q[j].key)}}

\* C25: AppDiscover keys every change by the application id alone.  The
\* change reported for a yielded Create(ins) is an Insert with key
\* ins.appid and for a yielded Delete(ins) a Remove with key ins.appid; so
\* after the Remove of one instance the key of its application is gone
\* from the consumer, whatever instances of that application the
\* consumer-side set still holds.
C25_ChangesKeyedByAppid ==
  /\ \A k \in 1..Len(delivered) :
       /\ Discovered[k].ok
       /\ Discovered[k].key = delivered[k].ins.appid
       /\ Discovered[k].kind = (IF delivered[k].kind = "Create" THEN "Insert" ELSE "Remove")
  /\ (delivered # <<>> /\ delivered[Len(delivered)].kind = "Delete") =>
       delivered[Len(delivered)].ins.appid \notin KeysOf(Discovered)

\* The Remove of one instance was the last change, after the Insert of
\* another instance of the same application that is registered and in the
\* consumer-side set: the key of the application is gone.
C25_Witness ==
  /\ delivered # <<>>
  /\ delivered[Len(delivered)] = Ev("Delete", Decoded["i1"])
  /\ \E k \in 1..Len(delivered) : delivered[k] = Ev("Create", Decoded["i3"])
  /\ Decoded["i3"] \in mirror
  /\ regOk["i3"]
  /\ LeafPath["i3"] \in DOMAIN tree
  /\ Decoded["i1"].appid = Decoded["i3"].appid
  /\ KeysOf(Discovered) = {}

\* The guards task t holds, and those the poll holds.
HeldByTask(t) == {<<"cache", h[2]>> : h \in {h \in locks.cache : h[1] = t}}

HeldByPoll ==
  IF locks.poll \in {"contains", "update"} THEN {<<"mirror", "lock">>} ELSE {}

\* Task t waits for a guard it cannot take.
Blocked(t) ==
  /\ LockMode(tasks[t].pc) # "none"
  /\ ~Guarded(t)
  /\ ~CanLock(t)

\* C24: no register, deregister, callback or poll holds two guards at the
\* same time, and a guard is dropped before the next one is taken, so
\* nothing deadlocks.  Each task and the poll hold at most one guard; a
\* guard of the cache is held only by a task at the statement that took
\* it, a write guard alone; the poll holds the guard of the set only with
\* an event at hand; a task that waits for a guard waits for tasks that
\* do not wait; and while a call is under way some task can take a step.
C24_OneLockAtATimeNoDeadlock ==
  /\ locks.on
  /\ \A t \in Tasks : Cardinality(HeldByTask(t)) <= 1
  /\ Cardinality(HeldByPoll) <= 1
  /\ \A h \in locks.cache :
       /\ LockMode(tasks[h[1]].pc) = h[2]
       /\ h[2] = "write" => locks.cache = {h}
  /\ locks.poll # "idle" => (chan # <<>> /\ ~ended)
  /\ \A t \in Tasks :
       Blocked(t) => \A h \in locks.cache : h[1] # t /\ ~Blocked(h[1])
  /\ (\E t \in Tasks : tasks[t].op # "idle") =>
       \E t \in Tasks : ENABLED (LockCache(t) \/ TaskStep(t))

\* One task holds the write guard of the cache, the other waits for a
\* guard, and the poll holds the guard of the set.
C24_Witness ==
  /\ \E t \in Tasks : <<t, "write">> \in locks.cache
  /\ \E t \in Tasks : Blocked(t)
  /\ locks.poll = "update"

(***************************************************************************)
(* Codec claims                                                            *)
(***************************************************************************)

\* C13: decoding the encoded form of an instance succeeds and gives an
\* instance equal to it in every field.
C13_CodecRoundTrips ==
  codec.pc = "decoded" => (codec.dec.ok /\ InstanceEq(codec.dec.val, codec.x))

sAppid == <<"a", "p", "p", "i", "d">>

\* The keys of the pairs of an encoded leaf name, in order.
PairKeys(s) == [k \in 1..Len(Split(s, "&")) |-> SplitPair(Split(s, "&")[k])[1]]

\* C14: the keys of the pairs of the encoded leaf name are zone, env,
\* appid, hostname, addrs once per address, version, metadata, in this
\* order.
C14_EncodedFieldOrder ==
  codec.pc = "encoded" =>
    PairKeys(codec.enc) =
      <<sZone, sEnv, sAppid, sHostname>>
      \o [k \in 1..Len(codec.x.addrs) |-> sAddrs]
      \o <<sVersion, sMetadata>>

=============================================================================
